---- MODULE Spec2Model ----
(***************************************************************************)
(* Object-permission managers of guardian (guardian/managers.py).          *)
(*                                                                         *)
(* The state is the object-permission table the manager sits on, as a bag  *)
(* of rows (the table has no uniqueness constraint in this model; the      *)
(* auto-increment id of a row is read by no operation and is left out),    *)
(* the schema variant of the managed model, and a history variable `last`  *)
(* holding the latest call: its arguments, the table it ran on, and what   *)
(* it returned or raised.                                                  *)
(***************************************************************************)
EXTENDS Integers, Sequences, FiniteSets, Bags, TLC

VARIABLES records, generic, last, inflight

vars == <<records, generic, last, inflight>>

-----------------------------------------------------------------------------
(* Bounds and universes                                                    *)

\* Largest number of rows the table may hold; an insert that would exceed it
\* is not taken.
MaxRecords == 2

\* Python's None as the primary key of an unsaved instance; saved instances
\* have positive keys.
NonePk == 0

\* The model a direct-variant record type points at with its content_object
\* foreign key.
DirectModel == "A"

Owners == {"u1", "u2"}

\* django.contrib.auth Permission rows: unique on (content_type, codename).
\* "view" exists for both models, "edit" for model B alone.
PermissionTable ==
  { [id |-> 1, codename |-> "view", content_type |-> 1],
    [id |-> 2, codename |-> "view", content_type |-> 2],
    [id |-> 3, codename |-> "edit", content_type |-> 2] }

Codenames == {"view", "edit"}

\* StrPerm = Union[str, Permission]: a resolved record or a bare name.  The
\* record passed is model A's "view"; the permissions of model B are passed
\* by name.
StrPerm ==
  { [isPermission |-> TRUE, id |-> p.id, codename |-> p.codename,
     content_type |-> p.content_type] :
      p \in {q \in PermissionTable : q.id = 1} }
  \cup
  { [isPermission |-> FALSE, id |-> 0, codename |-> c, content_type |-> 0] :
      c \in Codenames }

PermById(i) == CHOOSE p \in PermissionTable : p.id = i

\* Model instances handed to the single-object operations: saved ones and
\* one unsaved one.
AllInstances ==
  { [model |-> "A", pk |-> 1], [model |-> "B", pk |-> 1],
    [model |-> "A", pk |-> NonePk] }

\* QuerySets: a model and the primary keys of its rows, in iteration order.
AllQuerySets ==
  { [model |-> "A", pks |-> <<>>],  [model |-> "A", pks |-> <<1>>],
    [model |-> "A", pks |-> <<1, 12>>], [model |-> "B", pks |-> <<1>>] }

\* users_or_groups arguments of assign_perm_to_many.
OwnerLists == { <<"u1">>, <<"u1", "u2">>, <<"u2", "u2">> }

\* A direct-variant manager is used with instances of the one model its
\* foreign key references.
Instances == IF generic THEN AllInstances
             ELSE {x \in AllInstances : x.model = DirectModel}

QuerySets == IF generic THEN AllQuerySets
             ELSE {q \in AllQuerySets : q.model = DirectModel}

-----------------------------------------------------------------------------
(* Collaborators                                                           *)

\* guardian.ctypes.get_content_type: the ContentType id of a model.
get_content_type(model) == IF model = "A" THEN 1 ELSE 2

DigitChar == <<"0", "1", "2", "3", "4", "5", "6", "7", "8", "9">>

\* str(pk), the text stored in the object_pk column.
RECURSIVE Str(_)
Str(n) == IF n < 10 THEN <<DigitChar[n + 1]>>
          ELSE Str(n \div 10) \o <<DigitChar[(n % 10) + 1]>>

\* A lookup by codename alone.
PermissionLookup_any_model(ctype, name) ==
  {p \in PermissionTable : p.codename = name}

\* Permission.objects.get(content_type=ctype, codename=name): the matching
\* rows (at most one, by the table's uniqueness).
PermissionLookup(ctype, name) ==
  {p \in PermissionTable : p.content_type = ctype /\ p.codename = name}

-----------------------------------------------------------------------------
(* Schema introspection                                                    *)

\* is_generic(): the managed model declares an object_pk field.
is_generic == generic

\* The row a record type stores for permission id `permission`, `owner` and
\* instance `obj`: the generic variant keys the target by
\* (content_type, object_pk), the direct variant by a foreign key.  The
\* owner column stands for the 'user' or 'group' field, whichever the
\* managed model declares (user_or_group_field).
Row(permission, owner, ctype, obj) ==
  IF is_generic
  THEN [permission |-> permission, owner |-> owner,
        content_type |-> ctype, object_pk |-> Str(obj.pk)]
  ELSE [permission |-> permission, owner |-> owner, content_object |-> obj]

-----------------------------------------------------------------------------
(* Storage primitives of the ORM, on a table held as a bag of rows         *)

\* INSERT of one row into the object-permission table.  The table declares
\* no uniqueness constraint over (permission, owner, target): it takes a row
\* equal to one it holds.
Insert(table, row) == table (+) SetToBag({row})

RECURSIVE InsertAll(_, _)
InsertAll(table, rows) ==
  IF rows = <<>> THEN table
  ELSE InsertAll(Insert(table, Head(rows)), Tail(rows))

\* An insert that skips the rows the table already holds.
bulk_create_skip_existing(table, objs) ==
  InsertAll(table, SelectSeq(objs, LAMBDA r : CopiesIn(r, table) = 0))

\* Manager.bulk_create(objs): one INSERT of every element, no lookup.
bulk_create(table, objs) == InsertAll(table, objs)

\* create() where get_or_create() was meant: no lookup first.
get_or_create_no_get(table, kwargs) ==
  [outcome |-> "ok", created |-> TRUE, table |-> Insert(table, kwargs)]

\* Manager.get_or_create(**kwargs): get() on the exact kwargs, create() when
\* nothing matches; get() raises MultipleObjectsReturned on several matches.
get_or_create(table, kwargs) ==
  LET n == CopiesIn(kwargs, table) IN
  IF n = 0
  THEN [outcome |-> "ok", created |-> TRUE, table |-> Insert(table, kwargs)]
  ELSE IF n = 1
  THEN [outcome |-> "ok", created |-> FALSE, table |-> table]
  ELSE [outcome |-> "MultipleObjectsReturned", created |-> FALSE,
        table |-> table]

\* QuerySet.filter(...): the rows `hits` of `table`, with their
\* multiplicities.
Matching(table, hits) == [r \in BagToSet(table) \cap hits |-> table[r]]

\* QuerySet.filter(...).delete(): the table without the rows `hits`.
Delete(table, hits) == [r \in BagToSet(table) \ hits |-> table[r]]

-----------------------------------------------------------------------------
(* _check_perm_obj and make_base_init_kwargs                               *)

\* _check_perm_obj without its test of the primary key.
check_perm_obj_no_pk_test(perm, model, pk, isQuerySet) ==
  LET ctype == get_content_type(model) IN
  IF perm.isPermission
  THEN [err |-> "ok", permission |-> perm.id, ctype |-> ctype]
  ELSE LET found == PermissionLookup(ctype, perm.codename) IN
       IF found = {}
       THEN [err |-> "DoesNotExist", permission |-> 0, ctype |-> ctype]
       ELSE [err |-> "ok", permission |-> (CHOOSE p \in found : TRUE).id,
             ctype |-> ctype]

check_perm_obj(perm, model, pk, isQuerySet) ==
  IF ~isQuerySet /\ pk = NonePk
  THEN [err |-> "ObjectNotPersisted", permission |-> 0, ctype |-> 0]
  ELSE LET ctype == get_content_type(model) IN
       IF perm.isPermission
       THEN [err |-> "ok", permission |-> perm.id, ctype |-> ctype]
       ELSE LET found == PermissionLookup(ctype, perm.codename) IN
            IF found = {}
            THEN [err |-> "DoesNotExist", permission |-> 0, ctype |-> ctype]
            ELSE [err |-> "ok",
                  permission |-> (CHOOSE p \in found : TRUE).id,
                  ctype |-> ctype]

make_base_init_kwargs(perm, owner, obj) ==
  LET c == check_perm_obj(perm, obj.model, obj.pk, FALSE) IN
  IF c.err # "ok"
  THEN [err |-> c.err, kwargs |-> <<>>]
  ELSE [err |-> "ok", kwargs |-> Row(c.permission, owner, c.ctype, obj)]

\* The Permission record with id i, as a StrPerm argument.
Resolved(i) ==
  LET p == PermById(i) IN
  [isPermission |-> TRUE, id |-> p.id, codename |-> p.codename,
   content_type |-> p.content_type]

-----------------------------------------------------------------------------
(* The permission checker (guardian.core.ObjectPermissionChecker)          *)

\* Whether row r is a grant on instance `inst`.
OnInstance(r, inst) ==
  IF is_generic
  THEN r.content_type = get_content_type(inst.model)
       /\ r.object_pk = Str(inst.pk)
  ELSE r.content_object = inst

\* checker.has_perm(codename, instance) after prefetch_perms on `table`: the
\* owner holds a permission of that codename on the instance.
has_perm(table, owner, codename, inst) ==
  \E r \in BagToSet(table) :
     /\ r.owner = owner
     /\ PermById(r.permission).codename = codename
     /\ OnInstance(r, inst)

-----------------------------------------------------------------------------
(* The manager's operations as functions of the table                      *)

\* assign_perm: make_base_init_kwargs, then get_or_create on its result.
assign_perm(table, perm, owner, obj) ==
  LET k == make_base_init_kwargs(perm, owner, obj) IN
  IF k.err # "ok"
  THEN [outcome |-> k.err, rows |-> <<>>, created |-> FALSE, table |-> table]
  ELSE LET g == get_or_create(table, k.kwargs) IN
       [outcome |-> g.outcome,
        rows |-> IF g.outcome = "ok" THEN <<k.kwargs>> ELSE <<>>,
        created |-> g.created, table |-> g.table]

\* The loop without its has_perm test: a row for every instance.
RECURSIVE assigned_perms_unchecked(_, _, _, _, _)
assigned_perms_unchecked(table, permission, owner, model, pks) ==
  IF pks = <<>> THEN <<>>
  ELSE <<make_base_init_kwargs(Resolved(permission), owner,
                               [model |-> model, pk |-> Head(pks)]).kwargs>>
       \o assigned_perms_unchecked(table, permission, owner, model, Tail(pks))

\* The loop of bulk_assign_perm over the instances `pks` of `model`: one
\* unsaved row for every instance on which the checker, prefetched on
\* `table`, does not report the permission's codename for the owner.
RECURSIVE assigned_perms(_, _, _, _, _)
assigned_perms(table, permission, owner, model, pks) ==
  IF pks = <<>> THEN <<>>
  ELSE LET instance == [model |-> model, pk |-> Head(pks)]
           rest == assigned_perms(table, permission, owner, model, Tail(pks))
       IN IF ~has_perm(table, owner, PermById(permission).codename, instance)
          THEN <<make_base_init_kwargs(Resolved(permission), owner,
                                       instance).kwargs>> \o rest
          ELSE rest

\* bulk_assign_perm up to, and without, its bulk_create: the permission is
\* resolved against the queryset's model, the checker prefetches, the loop
\* builds the list.
bulk_assign_check(table, perm, owner, queryset) ==
  LET c == check_perm_obj(perm, queryset.model, NonePk, TRUE) IN
  IF c.err # "ok"
  THEN [outcome |-> c.err, rows |-> <<>>]
  ELSE [outcome |-> "ok",
        rows |-> assigned_perms(table, c.permission, owner, queryset.model,
                                queryset.pks)]

\* bulk_assign_perm run without interruption.
bulk_assign_perm(table, perm, owner, queryset) ==
  LET b == bulk_assign_check(table, perm, owner, queryset) IN
  [outcome |-> b.outcome, rows |-> b.rows,
   table |-> IF b.outcome = "ok" THEN bulk_create(table, b.rows) ELSE table]

\* The loop with the owner field set once, to the last element, for all rows.
to_add_last_owner(kwargs, users_or_groups) ==
  [i \in DOMAIN users_or_groups |->
     [kwargs EXCEPT !.owner = users_or_groups[Len(users_or_groups)]]]

\* The loop of assign_perm_to_many: the same kwargs with the owner field
\* overwritten by each element in turn.
RECURSIVE to_add(_, _)
to_add(kwargs, users_or_groups) ==
  IF users_or_groups = <<>> THEN <<>>
  ELSE <<[kwargs EXCEPT !.owner = Head(users_or_groups)]>>
       \o to_add(kwargs, Tail(users_or_groups))

assign_perm_to_many(table, perm, users_or_groups, obj) ==
  LET k == make_base_init_kwargs(perm, "", obj) IN
  IF k.err # "ok"
  THEN [outcome |-> k.err, rows |-> <<>>, table |-> table]
  ELSE LET rows == to_add(k.kwargs, users_or_groups) IN
       [outcome |-> "ok", rows |-> rows, table |-> bulk_create(table, rows)]

\* remove_perm's filter without the isinstance(perm, Permission) branch: the
\* permission is always matched by codename and the instance's content type.
remove_filters_by_name(r, perm, owner, obj) ==
  /\ r.owner = owner
  /\ PermById(r.permission).codename = perm.codename
  /\ PermById(r.permission).content_type = get_content_type(obj.model)
  /\ IF is_generic
     THEN r.object_pk = Str(obj.pk)
     ELSE r.content_object.pk = obj.pk

\* The Q object remove_perm builds, evaluated on row r.
remove_filters(r, perm, owner, obj) ==
  /\ r.owner = owner
  /\ IF perm.isPermission
     THEN r.permission = perm.id
     ELSE /\ PermById(r.permission).codename = perm.codename
          /\ PermById(r.permission).content_type = get_content_type(obj.model)
  /\ IF is_generic
     THEN r.object_pk = Str(obj.pk)
     ELSE r.content_object.pk = obj.pk

remove_perm(table, perm, owner, obj) ==
  IF obj.pk = NonePk
  THEN [outcome |-> "ObjectNotPersisted", deleted |-> 0, table |-> table]
  ELSE LET hits == {r \in BagToSet(table) :
                       remove_filters(r, perm, owner, obj)}
       IN [outcome |-> "ok",
           deleted |-> BagCardinality(Matching(table, hits)),
           table |-> Delete(table, hits)]

\* The Q object bulk_remove_perm builds, evaluated on row r.
bulk_remove_filters(r, perm, owner, queryset) ==
  /\ r.owner = owner
  /\ IF perm.isPermission
     THEN r.permission = perm.id
     ELSE /\ PermById(r.permission).codename = perm.codename
          /\ PermById(r.permission).content_type
               = get_content_type(queryset.model)
  /\ IF is_generic
     THEN r.object_pk \in {Str(queryset.pks[i]) : i \in DOMAIN queryset.pks}
     ELSE r.content_object \in
            {[model |-> queryset.model, pk |-> queryset.pks[i]] :
               i \in DOMAIN queryset.pks}

bulk_remove_perm(table, perm, owner, queryset) ==
  LET hits == {r \in BagToSet(table) :
                  bulk_remove_filters(r, perm, owner, queryset)}
  IN [outcome |-> "ok", deleted |-> BagCardinality(Matching(table, hits)),
      table |-> Delete(table, hits)]

-----------------------------------------------------------------------------
(* State machine                                                           *)

\* The record of a call: arguments (a single owner as a one-element list, a
\* single instance as a one-element pks), the table before it, its outcome
\* ("ok" or the exception raised) and what it returned.  `prev` is the
\* outcome of the call just before it when that was an assign_perm with the
\* same arguments, and "none" otherwise.
Call(op, perm, owners, model, pks, before, outcome, rows, created, n, prev) ==
  [op |-> op, perm |-> perm, owners |-> owners, model |-> model,
   pks |-> pks, before |-> before, outcome |-> outcome, rows |-> rows,
   created |-> created, deleted |-> n, prev |-> prev]

NoPerm == [isPermission |-> FALSE, id |-> 0, codename |-> "", content_type |-> 0]

NoCall == Call("none", NoPerm, <<>>, "", <<>>, EmptyBag, "ok", <<>>, FALSE, 0,
               "none")

Idle == [active |-> FALSE, perm |-> NoPerm, owner |-> "", model |-> "",
         pks |-> <<>>, rows |-> <<>>]

\* The outcome of the latest call when it was assign_perm(perm, owner, obj).
PrevAssign(perm, owner, obj) ==
  IF /\ last.op = "assign_perm" /\ last.perm = perm
     /\ last.owners = <<owner>> /\ last.model = obj.model
     /\ last.pks = <<obj.pk>>
  THEN last.outcome ELSE "none"

Fits(table) == BagCardinality(table) <= MaxRecords

Init ==
  /\ records = EmptyBag
  /\ generic \in BOOLEAN
  /\ last = NoCall
  /\ inflight = Idle

AssignPerm(perm, owner, obj) ==
  LET res == assign_perm(records, perm, owner, obj) IN
  /\ Fits(res.table)
  /\ records' = res.table
  /\ last' = Call("assign_perm", perm, <<owner>>, obj.model, <<obj.pk>>,
                  records, res.outcome, res.rows, res.created, 0,
                  PrevAssign(perm, owner, obj))
  /\ UNCHANGED <<generic, inflight>>

BulkAssignPerm(perm, owner, queryset) ==
  LET res == bulk_assign_perm(records, perm, owner, queryset) IN
  /\ Fits(res.table)
  /\ records' = res.table
  /\ last' = Call("bulk_assign_perm", perm, <<owner>>, queryset.model,
                  queryset.pks, records, res.outcome, res.rows, FALSE, 0,
                  "none")
  /\ UNCHANGED <<generic, inflight>>

AssignPermToMany(perm, users_or_groups, obj) ==
  LET res == assign_perm_to_many(records, perm, users_or_groups, obj) IN
  /\ Fits(res.table)
  /\ records' = res.table
  /\ last' = Call("assign_perm_to_many", perm, users_or_groups, obj.model,
                  <<obj.pk>>, records, res.outcome, res.rows, FALSE, 0,
                  "none")
  /\ UNCHANGED <<generic, inflight>>

RemovePerm(perm, owner, obj) ==
  LET res == remove_perm(records, perm, owner, obj) IN
  /\ records' = res.table
  /\ last' = Call("remove_perm", perm, <<owner>>, obj.model, <<obj.pk>>,
                  records, res.outcome, <<>>, FALSE, res.deleted,
                  PrevAssign(perm, owner, obj))
  /\ UNCHANGED <<generic, inflight>>

BulkRemovePerm(perm, owner, queryset) ==
  LET res == bulk_remove_perm(records, perm, owner, queryset) IN
  /\ records' = res.table
  /\ last' = Call("bulk_remove_perm", perm, <<owner>>, queryset.model,
                  queryset.pks, records, res.outcome, <<>>, FALSE,
                  res.deleted, "none")
  /\ UNCHANGED <<generic, inflight>>

Next ==
  \/ \E perm \in StrPerm, owner \in Owners, obj \in Instances :
        AssignPerm(perm, owner, obj)
  \/ \E perm \in StrPerm, owner \in Owners, queryset \in QuerySets :
        BulkAssignPerm(perm, owner, queryset)
  \/ \E perm \in StrPerm, owners \in OwnerLists, obj \in Instances :
        AssignPermToMany(perm, owners, obj)
  \/ \E perm \in StrPerm, owner \in Owners, obj \in Instances :
        RemovePerm(perm, owner, obj)
  \/ \E perm \in StrPerm, owner \in Owners, queryset \in QuerySets :
        BulkRemovePerm(perm, owner, queryset)

Spec == Init /\ [][Next]_vars

-----------------------------------------------------------------------------
(* bulk_assign_perm step by step, with other writers in between            *)

\* A bulk_assign_perm call up to the end of its loop: the permission is
\* resolved, the checker has prefetched, assigned_perms is built.  A call
\* that raises ends here.
BulkAssignStart(perm, owner, queryset) ==
  LET b == bulk_assign_check(records, perm, owner, queryset) IN
  /\ ~inflight.active
  /\ IF b.outcome = "ok"
     THEN /\ inflight' = [active |-> TRUE, perm |-> perm, owner |-> owner,
                          model |-> queryset.model, pks |-> queryset.pks,
                          rows |-> b.rows]
          /\ UNCHANGED last
     ELSE /\ last' = Call("bulk_assign_perm", perm, <<owner>>,
                          queryset.model, queryset.pks, records, b.outcome,
                          <<>>, FALSE, 0, "none")
          /\ UNCHANGED inflight
  /\ UNCHANGED <<records, generic>>

\* The bulk_create of that call and its return.  `before` is the table the
\* insert ran on.
BulkAssignFinish ==
  /\ inflight.active
  /\ Fits(bulk_create(records, inflight.rows))
  /\ records' = bulk_create(records, inflight.rows)
  /\ last' = Call("bulk_assign_perm", inflight.perm, <<inflight.owner>>,
                  inflight.model, inflight.pks, records, "ok",
                  inflight.rows, FALSE, 0, "none")
  /\ inflight' = Idle
  /\ UNCHANGED generic

\* One bulk_assign_perm in steps, beside writers that run assign_perm and
\* bulk_assign_perm.
NextConcurrent ==
  \/ \E perm \in StrPerm, owner \in Owners, queryset \in QuerySets :
        BulkAssignStart(perm, owner, queryset)
  \/ BulkAssignFinish
  \/ \E perm \in StrPerm, owner \in Owners, obj \in Instances :
        AssignPerm(perm, owner, obj)
  \/ \E perm \in StrPerm, owner \in Owners, queryset \in QuerySets :
        BulkAssignPerm(perm, owner, queryset)

SpecConcurrent == Init /\ [][NextConcurrent]_vars

-----------------------------------------------------------------------------
(* Vocabulary of the properties                                            *)

LastObj == [model |-> last.model, pk |-> last.pks[1]]

LastOwner == last.owners[1]

\* The permission ids a permission argument stands for on targets of `model`:
\* a record stands for itself, a name for the permission of that codename
\* under the model's content type, if there is one.
Denotes(perm, model) ==
  IF perm.isPermission THEN {perm.id}
  ELSE {p.id : p \in {q \in PermissionTable :
                        /\ q.codename = perm.codename
                        /\ q.content_type = get_content_type(model)}}

\* The target of a row and of an instance, as (content type, primary key).
TargetOf(r) ==
  IF generic THEN <<r.content_type, r.object_pk>>
  ELSE <<get_content_type(r.content_object.model), Str(r.content_object.pk)>>

TargetKey(obj) == <<get_content_type(obj.model), Str(obj.pk)>>

\* Row r is a record of the triple (a permission of pids, owner, obj).
IsGrant(r, pids, owner, obj) ==
  r.permission \in pids /\ r.owner = owner /\ TargetOf(r) = TargetKey(obj)

\* The number of records of that triple in `table`.
Grants(table, pids, owner, obj) ==
  {r \in BagToSet(table) : IsGrant(r, pids, owner, obj)}

Count(table, pids, owner, obj) ==
  BagCardinality(Matching(table, Grants(table, pids, owner, obj)))

\* No triple has two records.
Unique(table) == \A r \in BagToSet(table) : table[r] <= 1

-----------------------------------------------------------------------------
(* C1: assign_perm called repeatedly                                       *)

\* The latest call is assign_perm(p, o, x) with x saved and p a permission
\* (a record, or a name that resolves for x's model).
C1_Case ==
  /\ last.op = "assign_perm"
  /\ last.pks[1] # NonePk
  /\ Denotes(last.perm, last.model) # {}

\* C1 as stated: from any record table, a call of assign_perm(p, o, x) that
\* follows a call with the same arguments returns a record, the one that
\* was there and no new one, and leaves the number of records of the triple
\* as it was; a first call on a table without the triple leaves exactly one.
C1_Original ==
  C1_Case =>
    LET pids == Denotes(last.perm, last.model) IN
    /\ last.prev # "none" =>
         /\ last.outcome = "ok"
         /\ ~last.created
         /\ records = last.before
    /\ Count(last.before, pids, LastOwner, LastObj) = 0 =>
         Count(records, pids, LastOwner, LastObj) = 1

\* C1, amended: from a table with at most one record of the triple (p, o, x),
\* assign_perm(p, o, x) returns the record of the triple, creating it only
\* when there was none, and leaves exactly one; a call that follows a
\* successful call with the same arguments changes nothing and returns the
\* existing record.  From a table with two or more records of the triple
\* the call raises MultipleObjectsReturned and the table is unchanged.
C1_AssignIdempotent ==
  C1_Case =>
    LET pids == Denotes(last.perm, last.model)
        n == Count(last.before, pids, LastOwner, LastObj)
    IN
    /\ n <= 1 =>
         /\ last.outcome = "ok"
         /\ Len(last.rows) = 1
         /\ IsGrant(last.rows[1], pids, LastOwner, LastObj)
         /\ last.created = (n = 0)
         /\ Count(records, pids, LastOwner, LastObj) = 1
         /\ records = IF n = 0
                      THEN Insert(last.before, last.rows[1])
                      ELSE last.before
    /\ n >= 2 =>
         /\ last.outcome = "MultipleObjectsReturned"
         /\ records = last.before
    /\ last.prev = "ok" =>
         /\ n = 1
         /\ ~last.created
         /\ records = last.before

\* A second assign_perm in a row returned the existing record.
C1_Witness ==
  /\ C1_Case
  /\ last.prev = "ok"
  /\ last.outcome = "ok"
  /\ ~last.created
  /\ Count(records, Denotes(last.perm, last.model), LastOwner, LastObj) = 1

-----------------------------------------------------------------------------
(* C2: at most one record per triple                                       *)

\* C2 as stated: in every state reachable by the manager's operations from
\* the empty table, no (permission, owner, target) triple has two records.
C2_Original == Unique(records)

\* C2, amended: assign_perm, bulk_assign_perm (run without interleaving),
\* remove_perm and bulk_remove_perm each keep "at most one record per
\* triple": run on a table that has it, they leave a table that has it.
\* assign_perm_to_many does not.
C2_UniquePreserved ==
  (/\ last.op \in {"assign_perm", "bulk_assign_perm", "remove_perm",
                   "bulk_remove_perm"}
   /\ Unique(last.before))
  => Unique(records)

\* A bulk_assign_perm skipped an instance that held the permission and
\* inserted a record for one that did not.
C2_Witness ==
  /\ last.op = "bulk_assign_perm"
  /\ last.outcome = "ok"
  /\ Len(last.pks) = 2
  /\ Len(last.rows) = 1
  /\ Unique(last.before)
  /\ BagCardinality(records) = BagCardinality(last.before) + 1

-----------------------------------------------------------------------------
(* C3: unsaved target                                                      *)

\* C3: assign_perm, assign_perm_to_many and remove_perm on an instance whose
\* primary key is None raise ObjectNotPersisted and leave the table as it
\* was, whatever the permission argument.
C3_Unpersisted ==
  (/\ last.op \in {"assign_perm", "assign_perm_to_many", "remove_perm"}
   /\ last.pks[1] = NonePk)
  => /\ last.outcome = "ObjectNotPersisted"
     /\ records = last.before
     /\ last.rows = <<>>
     /\ last.deleted = 0

\* remove_perm of a name that resolves nowhere for the instance's model, on
\* an unsaved instance, with rows of that owner in the table.
C3_Witness ==
  /\ last.op = "remove_perm"
  /\ last.pks[1] = NonePk
  /\ ~last.perm.isPermission
  /\ Denotes(last.perm, last.model) = {}
  /\ last.outcome = "ObjectNotPersisted"
  /\ \E r \in BagToSet(records) : r.owner = LastOwner

-----------------------------------------------------------------------------
(* C4: assign_perm then remove_perm                                        *)

\* C4: remove_perm(p, o, x) called right after assign_perm(p, o, x), x
\* saved, leaves no record of the triple (p, o, x), however many there were.
C4_RoundTrip ==
  (/\ last.op = "remove_perm"
   /\ last.prev # "none"
   /\ last.pks[1] # NonePk)
  => /\ last.outcome = "ok"
     /\ Count(records, Denotes(last.perm, last.model), LastOwner, LastObj) = 0

\* assign_perm created the record and remove_perm deleted it.
C4_Witness ==
  /\ last.op = "remove_perm"
  /\ last.prev = "ok"
  /\ last.deleted = 1
  /\ Count(last.before, Denotes(last.perm, last.model), LastOwner, LastObj) = 1
  /\ Count(records, Denotes(last.perm, last.model), LastOwner, LastObj) = 0

\* The same with duplicates of the triple in the table: assign_perm raised,
\* remove_perm deleted them all.
C4_DuplicatesCase ==
  /\ last.op = "remove_perm"
  /\ last.prev = "MultipleObjectsReturned"
  /\ last.deleted >= 2

-----------------------------------------------------------------------------
(* C5: bulk_assign_perm                                                    *)

\* C5 as stated: bulk_assign_perm(p, o, Q), run without interleaving,
\* returns exactly one record for each instance of Q on which o did not hold
\* p and none for an instance on which o did, inserts exactly the returned
\* records, and afterwards o holds p on every instance of Q.
C5_Original ==
  (last.op = "bulk_assign_perm" /\ last.outcome = "ok") =>
    LET pids == Denotes(last.perm, last.model)
        Inst(i) == [model |-> last.model, pk |-> last.pks[i]]
        Held(i) == Count(last.before, pids, LastOwner, Inst(i)) > 0
        Returned(i) ==
          Cardinality({j \in DOMAIN last.rows :
                         IsGrant(last.rows[j], pids, LastOwner, Inst(i))})
    IN
    /\ \A i \in DOMAIN last.pks : Returned(i) = IF Held(i) THEN 0 ELSE 1
    /\ Len(last.rows) = Cardinality({i \in DOMAIN last.pks : ~Held(i)})
    /\ records = InsertAll(last.before, last.rows)
    /\ \A i \in DOMAIN last.pks :
          Count(records, pids, LastOwner, Inst(i)) > 0

\* What the code does hold to: it returns one record per instance on which
\* the owner held no permission of p's codename, and inserts those.
C5_ByCodename ==
  (last.op = "bulk_assign_perm" /\ last.outcome = "ok") =>
    LET pids == Denotes(last.perm, last.model)
        names == {PermById(i).codename : i \in pids}
        sameName == {q.id : q \in {x \in PermissionTable :
                                     x.codename \in names}}
        Inst(i) == [model |-> last.model, pk |-> last.pks[i]]
        Held(i) == Count(last.before, sameName, LastOwner, Inst(i)) > 0
        Returned(i) ==
          Cardinality({j \in DOMAIN last.rows :
                         IsGrant(last.rows[j], pids, LastOwner, Inst(i))})
    IN
    /\ \A i \in DOMAIN last.pks : Returned(i) = IF Held(i) THEN 0 ELSE 1
    /\ Len(last.rows) = Cardinality({i \in DOMAIN last.pks : ~Held(i)})
    /\ records = InsertAll(last.before, last.rows)

-----------------------------------------------------------------------------
(* C6: bulk_remove_perm                                                    *)

\* C6 as stated: bulk_remove_perm(p, o, Q) deletes the records whose owner
\* is o, whose permission is p and whose target, as (content type, primary
\* key), is an instance of Q, and leaves every other record as it was.
C6_Original ==
  last.op = "bulk_remove_perm" =>
    LET pids == Denotes(last.perm, last.model)
        inQ == {r \in BagToSet(last.before) :
                  \E i \in DOMAIN last.pks :
                     IsGrant(r, pids, LastOwner,
                             [model |-> last.model, pk |-> last.pks[i]])}
    IN
    /\ last.outcome = "ok"
    /\ records = Delete(last.before, inQ)
    /\ last.deleted = BagCardinality(Matching(last.before, inQ))

\* What the code does hold to, generic variant: the target is matched by
\* primary key alone, whatever the content type of the record.
C6_ByPrimaryKey ==
  (last.op = "bulk_remove_perm" /\ generic) =>
    LET pids == Denotes(last.perm, last.model)
        inQ == {r \in BagToSet(last.before) :
                  /\ r.owner = LastOwner
                  /\ r.permission \in pids
                  /\ \E i \in DOMAIN last.pks :
                        r.object_pk = Str(last.pks[i])}
    IN records = Delete(last.before, inQ)

-----------------------------------------------------------------------------
(* C7: remove_perm                                                         *)

\* C7 as stated: remove_perm(p, o, x) on a saved x deletes all and only the
\* records of the triple (p, o, x), the target being (content type, primary
\* key); with no such record it succeeds, deletes nothing and leaves the
\* table as it was.
C7_Original ==
  (last.op = "remove_perm" /\ last.pks[1] # NonePk) =>
    LET hits == Grants(last.before, Denotes(last.perm, last.model),
                       LastOwner, LastObj)
    IN
    /\ last.outcome = "ok"
    /\ records = Delete(last.before, hits)
    /\ last.deleted = BagCardinality(Matching(last.before, hits))

\* What the code does hold to, generic variant: the target is matched by
\* primary key alone, whatever the content type of the record.
C7_ByPrimaryKey ==
  (last.op = "remove_perm" /\ last.pks[1] # NonePk /\ generic) =>
    LET pids == Denotes(last.perm, last.model)
        hits == {r \in BagToSet(last.before) :
                   /\ r.owner = LastOwner
                   /\ r.permission \in pids
                   /\ r.object_pk = Str(last.pks[1])}
    IN records = Delete(last.before, hits)

\* remove_perm by a name that resolves to no permission, and remove_perm
\* with no record of the triple, succeed and change nothing.
C7_NoMatch ==
  (/\ last.op = "remove_perm" /\ last.pks[1] # NonePk
   /\ \A r \in BagToSet(last.before) :
         ~(r.owner = LastOwner
           /\ r.permission \in Denotes(last.perm, last.model)))
  => (last.outcome = "ok" /\ last.deleted = 0 /\ records = last.before)

-----------------------------------------------------------------------------
(* C8: assign_perm_to_many                                                 *)

\* C8: assign_perm_to_many(p, owners, x) on a saved x inserts one record per
\* element of owners, with permission p, target x and that element as
\* owner, whether or not the grant existed: every row's count rises by the
\* number of returned records equal to it, so the count of (p, u, x) rises by
\* the occurrences of u in owners and other triples keep theirs.
C8_OnePerOwner ==
  (/\ last.op = "assign_perm_to_many"
   /\ last.pks[1] # NonePk
   /\ Denotes(last.perm, last.model) # {})
  => LET pids == Denotes(last.perm, last.model) IN
     /\ last.outcome = "ok"
     /\ Len(last.rows) = Len(last.owners)
     /\ \A i \in DOMAIN last.owners :
           IsGrant(last.rows[i], pids, last.owners[i], LastObj)
     /\ \A u \in Owners :
           Count(records, pids, u, LastObj)
             = Count(last.before, pids, u, LastObj)
               + Cardinality({i \in DOMAIN last.owners : last.owners[i] = u})
     /\ \A r \in BagToSet(records) \cup BagToSet(last.before) :
           (~ \E u \in Owners : IsGrant(r, pids, u, LastObj))
             => CopiesIn(r, records) = CopiesIn(r, last.before)

\* An owner of the list already held the permission on the object and got
\* a second record.
C8_Witness ==
  /\ last.op = "assign_perm_to_many"
  /\ last.outcome = "ok"
  /\ \E i \in DOMAIN last.rows :
        /\ CopiesIn(last.rows[i], last.before) = 1
        /\ CopiesIn(last.rows[i], records) = 2

-----------------------------------------------------------------------------
(* C9: bulk_assign_perm against a concurrent writer                        *)

\* C9: when the bulk insert of a bulk_assign_perm runs on a table that
\* already holds a record it is about to insert, put there by another writer
\* after the existence check, the triple has two records afterwards.
C9_RaceDuplicates ==
  (last.op = "bulk_assign_perm" /\ last.outcome = "ok") =>
    \A i \in DOMAIN last.rows :
       CopiesIn(last.rows[i], last.before) >= 1
         => CopiesIn(last.rows[i], records) >= 2

\* A writer inserted the grant between the check and the bulk insert.
C9_Witness ==
  /\ last.op = "bulk_assign_perm"
  /\ last.outcome = "ok"
  /\ \E i \in DOMAIN last.rows :
        /\ CopiesIn(last.rows[i], last.before) = 1
        /\ CopiesIn(last.rows[i], records) = 2

-----------------------------------------------------------------------------
(* C10: a name that resolves to no permission                              *)

\* The latest call is an assignment by a bare name under which the target's
\* model (for a batch, the batch's model) has no permission.
C10_UnknownName ==
  /\ last.op \in {"assign_perm", "bulk_assign_perm", "assign_perm_to_many"}
  /\ ~last.perm.isPermission
  /\ Denotes(last.perm, last.model) = {}

\* An assignment given a Permission record raises no lookup error, and the
\* records it returns carry that very permission.
C10_RecordAccepted ==
  (/\ last.op \in {"assign_perm", "bulk_assign_perm", "assign_perm_to_many"}
   /\ last.perm.isPermission)
  => /\ last.outcome # "DoesNotExist"
     /\ \A i \in DOMAIN last.rows : last.rows[i].permission = last.perm.id

\* C10 as stated: such a call raises the lookup's DoesNotExist and inserts
\* nothing.
C10_Original ==
  /\ C10_UnknownName =>
       (last.outcome = "DoesNotExist" /\ records = last.before)
  /\ C10_RecordAccepted

\* C10, amended: such a call on a saved instance, or on a batch (empty or
\* not), raises the lookup's DoesNotExist and inserts nothing; on an unsaved
\* instance ObjectNotPersisted comes first.
C10_LookupFails ==
  /\ (C10_UnknownName
      /\ (last.op = "bulk_assign_perm" \/ last.pks[1] # NonePk))
     => (last.outcome = "DoesNotExist" /\ records = last.before)
  /\ (C10_UnknownName
      /\ last.op # "bulk_assign_perm" /\ last.pks[1] = NonePk)
     => (last.outcome = "ObjectNotPersisted" /\ records = last.before)
  /\ C10_RecordAccepted

\* bulk_assign_perm of "edit", which model B has and model A has not, on an
\* empty batch of model A.
C10_Witness ==
  /\ last.op = "bulk_assign_perm"
  /\ last.pks = <<>>
  /\ C10_UnknownName
  /\ PermissionLookup(get_content_type("B"), last.perm.codename) # {}
  /\ last.outcome = "DoesNotExist"

====
